---- MODULE Spec2Model ----
(***************************************************************************)
(* The drinks backend of src/backend/src/app.py as a state machine.  The   *)
(* state is the drinks table together with the last request served and the *)
(* response it got; one action per route.  Python values are records       *)
(* tagged by their type, so that None, a missing key and a string stay     *)
(* distinct, and JSON text is a value of its own.                          *)
(***************************************************************************)
EXTENDS Integers, Sequences, FiniteSets, TLC

VARIABLES drinks, before, req, resp

vars == <<drinks, before, req, resp>>

\* Largest number of rows the table holds in the model (ids 1..MaxDrinks).
MaxDrinks == 2

-----------------------------------------------------------------------------
(* Python and JSON values *)

PyNone == [py |-> "None"]
Absent == [py |-> "absent"]
PyStr(s) == [py |-> "str", v |-> s]
PyList(items) == [py |-> "list", v |-> items]

Titles == {"latte", "mocha"}

Milk == [name |-> "milk", color |-> "white", parts |-> 1]
Coffee == [name |-> "coffee", color |-> "brown", parts |-> 2]

Recipes == {<<Coffee, Milk>>}

\* What a request body may hold under the key 'title' and under 'recipe'.
TitleInputs == {Absent} \cup {PyStr(t) : t \in Titles}

RecipeInputs == {Absent} \cup {PyList(r) : r \in Recipes}

\* request.get_json(): None when the request carries no JSON, else a dict.
NoBody == [py |-> "None"]

Bodies == {NoBody} \cup
          {[py |-> "dict", title |-> t, recipe |-> r] :
              t \in TitleInputs, r \in RecipeInputs}

\* body.get(key, default)
BodyGet(body, key, default) ==
    IF body[key] = Absent THEN default ELSE body[key]

\* json.dumps: None becomes the text 'null', a list the text of an array.
json_dumps(value) ==
    IF value = PyNone
    THEN [json |-> "null"]
    ELSE [json |-> "array", v |-> value.v]

\* json.loads, on the texts json_dumps produces.
json_loads(text) ==
    IF text = [json |-> "null"]
    THEN PyNone
    ELSE PyList(text.v)

JsonNull == json_dumps(PyNone)

-----------------------------------------------------------------------------
(* Tokens and the permission check *)

Permissions == {"get:drinks-detail", "post:drinks", "patch:drinks", "delete:drinks"}

\* A request comes without a token or with one carrying permissions.
NoToken == [present |-> FALSE, permissions |-> {}]

Tokens == {NoToken} \cup
          {[present |-> TRUE, permissions |-> {p}] : p \in Permissions}

\* requires_auth(permission): the request goes on to the handler only if its
\* token carries the permission.
requires_auth(permission, token) ==
    token.present /\ permission \in token.permissions

-----------------------------------------------------------------------------
(* The drinks table: a function from the ids in use to rows *)

Row(title, recipe) == [title |-> title, recipe |-> recipe]

Ids(table) == DOMAIN table

MaxId(table) ==
    IF Ids(table) = {} THEN 0
    ELSE CHOOSE i \in Ids(table) : \A j \in Ids(table) : j <= i

\* The id an inserted row gets.
NextId(table) == MaxId(table) + 1

Insert(table, id, row) ==
    [i \in Ids(table) \cup {id} |-> IF i = id THEN row ELSE table[i]]

Update(table, id, row) ==
    [i \in Ids(table) |-> IF i = id THEN row ELSE table[i]]

Delete(table, id) ==
    [i \in Ids(table) \ {id} |-> table[i]]

\* A Drink object: a row with its id.
Drink(table, id) ==
    [id |-> id, title |-> table[id].title, recipe |-> table[id].recipe]

\* Drink.query.order_by(Drink.id).all()
RECURSIVE OrderById(_, _)
OrderById(table, ids) ==
    IF ids = {} THEN <<>>
    ELSE LET least == CHOOSE i \in ids : \A j \in ids : i <= j
         IN  <<Drink(table, least)>> \o OrderById(table, ids \ {least})

\* Drink.query.filter(Drink.id == drink_id).first()
FilterFirst(table, drink_id) ==
    IF drink_id \in Ids(table) THEN Drink(table, drink_id) ELSE PyNone

ShortIngredient(i) == [color |-> i.color, parts |-> i.parts]

ShortRecipe(value) ==
    IF value = PyNone THEN PyNone
    ELSE PyList([k \in 1..Len(value.v) |-> ShortIngredient(value.v[k])])

\* drink.short(): id, title and the colour and parts of each ingredient.
short(drink) ==
    [id |-> drink.id, title |-> drink.title,
     recipe |-> ShortRecipe(json_loads(drink.recipe))]

\* drink.long(): id, title and the whole recipe.
long(drink) ==
    [id |-> drink.id, title |-> drink.title,
     recipe |-> json_loads(drink.recipe)]

-----------------------------------------------------------------------------
(* Responses *)

\* jsonify(body) returned from a handler: status 200.
jsonify(body) ==
    [status |-> 200, stage |-> "handler", exc |-> "none", handler |-> "none",
     body |-> body]

unprocessable ==
    [status |-> 422, handler |-> "unprocessable",
     body |-> [success |-> FALSE, error |-> 422, message |-> "unprocessable"]]

not_found ==
    [status |-> 404, handler |-> "not_found",
     body |-> [success |-> FALSE, error |-> 404, message |-> "resource not found"]]

badrequest ==
    [status |-> 400, handler |-> "badrequest",
     body |-> [success |-> FALSE, error |-> 400, message |-> "bad request"]]

internalservererror ==
    [status |-> 500, handler |-> "internalservererror",
     body |-> [success |-> FALSE, error |-> 500, message |-> "Internal Server Error"]]

\* The handlers registered with @app.errorhandler.
HandledCodes == {400, 404, 422, 500}

ErrorHandler(code) ==
    CASE code = 422 -> unprocessable
      [] code = 404 -> not_found
      [] code = 400 -> badrequest
      [] code = 500 -> internalservererror

\* An exception exc raised inside a handler's try block reached
\* `except Exception: abort(code)`.
Aborted(exc, code) ==
    LET h == ErrorHandler(code)
    IN  [status |-> h.status, stage |-> "handler", exc |-> exc,
         handler |-> h.handler, body |-> h.body]

\* requires_auth raised AuthError: the handler never ran.  No handler is
\* registered for AuthError, so the exception is unhandled and the response
\* is the 500 of internalservererror.
AuthFailure ==
    LET h == ErrorHandler(500)
    IN  [status |-> h.status, stage |-> "auth", exc |-> "AuthError",
         handler |-> h.handler, body |-> h.body]

-----------------------------------------------------------------------------
(* The route handlers.  Each yields the table it leaves and its response.  *)
(* fault says which call into the database layer raises while the request  *)
(* is served: "orm" a query, insert, update or delete, "repr" a short() or *)
(* long() taken after the write.                                           *)

Faults == {"none", "orm", "repr"}

DeleteFaults == {"none", "orm"}

Outcome(table, response) == [table |-> table, resp |-> response]

MapShort(selection) == [k \in 1..Len(selection) |-> short(selection[k])]

MapLong(selection) == [k \in 1..Len(selection) |-> long(selection[k])]

Reverse(seq) == [k \in 1..Len(seq) |-> seq[Len(seq) + 1 - k]]

\* Faulty variant of get_drinks: the selection comes newest first.
get_drinks_desc(table, fault) ==
    IF fault # "none"
    THEN Outcome(table, Aborted("Exception", 404))
    ELSE LET selection == Reverse(OrderById(table, Ids(table)))
         IN  Outcome(table, jsonify([success |-> TRUE,
                                     drinks |-> MapShort(selection)]))

\* GET /drinks
get_drinks(table, fault) ==
    IF fault # "none"
    THEN Outcome(table, Aborted("Exception", 404))
    ELSE LET selection == OrderById(table, Ids(table))
         IN  Outcome(table, jsonify([success |-> TRUE,
                                     drinks |-> MapShort(selection)]))

\* Faulty variant of get_drink_details: the except branch aborts with 422.
get_drink_details_422(table, fault) ==
    IF fault # "none"
    THEN Outcome(table, Aborted("Exception", 422))
    ELSE LET selection == OrderById(table, Ids(table))
         IN  Outcome(table, jsonify([success |-> TRUE,
                                     drinks |-> MapLong(selection)]))

\* GET /drinks-detail
get_drink_details(table, fault) ==
    IF fault # "none"
    THEN Outcome(table, Aborted("Exception", 404))
    ELSE LET selection == OrderById(table, Ids(table))
         IN  Outcome(table, jsonify([success |-> TRUE,
                                     drinks |-> MapLong(selection)]))

\* Faulty variant of create_drinks: the recipe is read under a key the body
\* never has, so every drink is stored with the recipe 'null'.
create_drinks_wrong_key(table, body, fault) ==
    IF body = NoBody
    THEN Outcome(table, Aborted("AttributeError", 422))
    ELSE LET new_title == BodyGet(body, "title", PyNone)
             id == NextId(table)
             inserted == Insert(table, id, Row(new_title, json_dumps(PyNone)))
         IN  IF fault = "orm"
             THEN Outcome(table, Aborted("Exception", 422))
             ELSE IF fault = "repr"
             THEN Outcome(inserted, Aborted("Exception", 422))
             ELSE Outcome(inserted,
                          jsonify([success |-> TRUE,
                                   drinks |-> <<long(Drink(inserted, id))>>]))

\* POST /drinks
create_drinks(table, body, fault) ==
    IF body = NoBody
    THEN Outcome(table, Aborted("AttributeError", 422))
    ELSE LET new_title == BodyGet(body, "title", PyNone)
             new_recipe == BodyGet(body, "recipe", PyNone)
             id == NextId(table)
             inserted == Insert(table, id, Row(new_title, json_dumps(new_recipe)))
         IN  IF fault = "orm"
             THEN Outcome(table, Aborted("Exception", 422))
             ELSE IF fault = "repr"
             THEN Outcome(inserted, Aborted("Exception", 422))
             ELSE Outcome(inserted,
                          jsonify([success |-> TRUE,
                                   drinks |-> <<long(Drink(inserted, id))>>]))

\* PATCH /drinks/<id>
update_drinks(table, drink_id, body, fault) ==
    IF fault = "orm"
    THEN Outcome(table, Aborted("Exception", 422))
    ELSE LET drink == FilterFirst(table, drink_id)
         IN  IF drink = PyNone
             THEN \* abort(404) raises inside the try block and is caught there
                  Outcome(table, Aborted("NotFound", 422))
             ELSE IF body = NoBody
             THEN Outcome(table, Aborted("AttributeError", 422))
             ELSE LET title == BodyGet(body, "title", drink.title)
                      recipe == json_dumps(BodyGet(body, "recipe", PyNone))
                      kept == IF recipe # JsonNull THEN recipe ELSE drink.recipe
                      updated == Update(table, drink_id, Row(title, kept))
                  IN  IF fault = "repr"
                      THEN Outcome(updated, Aborted("Exception", 422))
                      ELSE Outcome(updated,
                                   jsonify([success |-> TRUE,
                                            drinks |-> <<long(Drink(updated, drink_id))>>]))

\* DELETE /drinks/<id>
delete_drinks(table, drink_id, fault) ==
    IF fault = "orm"
    THEN Outcome(table, Aborted("Exception", 422))
    ELSE LET drink == FilterFirst(table, drink_id)
         IN  IF drink = PyNone
             THEN \* abort(404) raises inside the try block and is caught there
                  Outcome(table, Aborted("NotFound", 422))
             ELSE Outcome(Delete(table, drink_id),
                          jsonify([success |-> TRUE, delete |-> drink_id]))

\* Faulty variant of RequiredPermission: the DELETE route was copied from the
\* PATCH route with its permission.
RequiredPermission_copied(route) ==
    CASE route = "get_drink_details" -> "get:drinks-detail"
      [] route = "create_drinks" -> "post:drinks"
      [] route = "update_drinks" -> "patch:drinks"
      [] route = "delete_drinks" -> "patch:drinks"

\* The permission each gated route hands to requires_auth.
RequiredPermission(route) ==
    CASE route = "get_drink_details" -> "get:drinks-detail"
      [] route = "create_drinks" -> "post:drinks"
      [] route = "update_drinks" -> "patch:drinks"
      [] route = "delete_drinks" -> "delete:drinks"

-----------------------------------------------------------------------------
(* Requests *)

\* The ids a request may name; one is unused whenever the table is not full.
DrinkIds == 1..MaxDrinks

Request(route, token, drink_id, body) ==
    [route |-> route, token |-> token, drink_id |-> drink_id, body |-> body]

NoRequest == Request("none", NoToken, 0, NoBody)

NoResponse ==
    [status |-> 0, stage |-> "none", exc |-> "none", handler |-> "none",
     body |-> [default |-> 0]]

Init ==
    /\ drinks = <<>>
    /\ before = <<>>
    /\ req = NoRequest
    /\ resp = NoResponse

\* A gated request: one of the handler's outcomes if the token passes, else
\* an authorization failure that leaves the table alone.
Serve(request, outcomes) ==
    /\ req' = request
    /\ before' = drinks
    /\ IF requires_auth(RequiredPermission(request.route), request.token)
       THEN \E outcome \in outcomes :
                /\ drinks' = outcome.table
                /\ resp' = outcome.resp
       ELSE /\ drinks' = drinks
            /\ resp' = AuthFailure

GetDrinks ==
    \E token \in Tokens, fault \in Faults :
        LET outcome == get_drinks(drinks, fault)
        IN  /\ req' = Request("get_drinks", token, 0, NoBody)
            /\ before' = drinks
            /\ drinks' = outcome.table
            /\ resp' = outcome.resp

GetDrinkDetails ==
    \E token \in Tokens :
        Serve(Request("get_drink_details", token, 0, NoBody),
              {get_drink_details(drinks, fault) : fault \in Faults})

CreateDrinks ==
    /\ NextId(drinks) <= MaxDrinks
    /\ \E token \in Tokens, body \in Bodies :
        Serve(Request("create_drinks", token, 0, body),
              {create_drinks(drinks, body, fault) : fault \in Faults})

UpdateDrinks ==
    \E token \in Tokens, drink_id \in DrinkIds, body \in Bodies :
        Serve(Request("update_drinks", token, drink_id, body),
              {update_drinks(drinks, drink_id, body, fault) : fault \in Faults})

DeleteDrinks ==
    \E token \in Tokens, drink_id \in DrinkIds :
        Serve(Request("delete_drinks", token, drink_id, NoBody),
              {delete_drinks(drinks, drink_id, fault) : fault \in DeleteFaults})

Next ==
    \/ GetDrinks
    \/ GetDrinkDetails
    \/ CreateDrinks
    \/ UpdateDrinks
    \/ DeleteDrinks

Spec == Init /\ [][Next]_vars

-----------------------------------------------------------------------------
(* Properties *)

GatedRoutes == {"get_drink_details", "create_drinks", "update_drinks", "delete_drinks"}

\* The permission the documentation of each gated route names.
DocumentedPermission(route) ==
    CASE route = "get_drink_details" -> "get:drinks-detail"
      [] route = "create_drinks" -> "post:drinks"
      [] route = "update_drinks" -> "patch:drinks"
      [] route = "delete_drinks" -> "delete:drinks"

Carries(token, permission) ==
    token.present /\ permission \in token.permissions

ErrorBody(response) ==
    /\ response.body.success = FALSE
    /\ response.body.error = response.status

\* L holds exactly one short() entry for every drink of the table, in
\* ascending id order.
IsShortListing(L, table) ==
    /\ Len(L) = Cardinality(Ids(table))
    /\ \A id \in Ids(table) : \E k \in 1..Len(L) : L[k] = short(Drink(table, id))
    /\ \A j, k \in 1..Len(L) : j < k => L[j].id < L[k].id

\* C1: a request to GET /drinks-detail, POST /drinks, PATCH /drinks/<id> or
\* DELETE /drinks/<id> whose token does not carry the route's permission
\* ('get:drinks-detail', 'post:drinks', 'patch:drinks', 'delete:drinks') never
\* gets a 200 response and never changes the drinks table, whatever id or body
\* it carries.
C1_GatedByPermission ==
    (/\ req.route \in GatedRoutes
     /\ ~Carries(req.token, DocumentedPermission(req.route)))
    => (resp.status # 200 /\ drinks = before)

\* A PATCH of an existing drink, with a body that would rename it, sent with a
\* token that carries only 'post:drinks', was refused.
C1_Witness ==
    /\ req.route = "update_drinks"
    /\ req.token = [present |-> TRUE, permissions |-> {"post:drinks"}]
    /\ req.drink_id \in Ids(before)
    /\ req.body # NoBody
    /\ req.body.title # Absent
    /\ req.body.title # before[req.drink_id].title
    /\ resp.status = 500

\* C2 as stated: GET /drinks always returns 200 with success true and the
\* short() listing of the table in ascending id order, and leaves the table
\* unchanged.
C2_AlwaysListing ==
    req.route = "get_drinks"
    => /\ resp.status = 200
       /\ resp.body.success = TRUE
       /\ IsShortListing(resp.body.drinks, before)
       /\ drinks = before

\* C2 (amended): GET /drinks is public and leaves the table unchanged; with or
\* without a token and whatever the token carries, it returns 200 with success
\* true and the short() listing of the table in ascending id order, unless an
\* exception is raised inside the handler, and then it returns the 404 error
\* body.
C2_PublicListing ==
    req.route = "get_drinks"
    => /\ drinks = before
       /\ resp.stage = "handler"
       /\ IF resp.exc = "none"
          THEN /\ resp.status = 200
               /\ resp.body.success = TRUE
               /\ IsShortListing(resp.body.drinks, before)
          ELSE /\ resp.status = 404
               /\ ErrorBody(resp)

\* GET /drinks without a token listed a table of two drinks.
C2_Witness ==
    /\ req.route = "get_drinks"
    /\ req.token = NoToken
    /\ Cardinality(Ids(before)) >= 2
    /\ resp.status = 200
    /\ Len(resp.body.drinks) >= 2

\* C3: PATCH /drinks/<id> sent with 'patch:drinks' responds with 404 if <id> is
\* not the id of a drink in the table (and the lookup itself does not fail).
C3_PatchMissingIs404 ==
    (/\ req.route = "update_drinks"
     /\ Carries(req.token, "patch:drinks")
     /\ req.drink_id \notin Ids(before)
     /\ resp.exc # "Exception")
    => resp.status = 404

\* C4: DELETE /drinks/<id> sent with 'delete:drinks' responds with 404 if <id>
\* is not the id of a drink in the table (and the lookup itself does not fail).
C4_DeleteMissingIs404 ==
    (/\ req.route = "delete_drinks"
     /\ Carries(req.token, "delete:drinks")
     /\ req.drink_id \notin Ids(before)
     /\ resp.exc # "Exception")
    => resp.status = 404

\* The value a body holds under a key, None when the key is missing.
Sent(body, key) == IF body[key] = Absent THEN PyNone ELSE body[key]

PostSucceeded == req.route = "create_drinks" /\ resp.status = 200

\* The row a successful POST added.
Created == CHOOSE id \in Ids(drinks) : id \notin Ids(before)

\* A successful POST added exactly one row, with the title and the recipe of
\* the body, left the other rows alone and answered with the new drink alone,
\* in long() form.
C5_Effect ==
    PostSucceeded
    => /\ \E id \in Ids(drinks) \ Ids(before) :
            /\ Ids(drinks) = Ids(before) \cup {id}
            /\ drinks[id].title = Sent(req.body, "title")
            /\ json_loads(drinks[id].recipe) = Sent(req.body, "recipe")
            /\ resp.body = [success |-> TRUE,
                            drinks |-> <<[id |-> id,
                                          title |-> Sent(req.body, "title"),
                                          recipe |-> Sent(req.body, "recipe")]>>]
       /\ \A i \in Ids(before) : drinks[i] = before[i]

\* A GET /drinks that follows a successful POST lists the new drink.
C5_FollowingGet ==
    (/\ PostSucceeded
     /\ req'.route = "get_drinks"
     /\ resp'.status = 200)
    => \E k \in 1..Len(resp'.body.drinks) :
           resp'.body.drinks[k] = short(Drink(drinks, Created))

====
